---- MODULE Spec2Model ----
(***************************************************************************)
(* Streamlit keepalive: the two scripts of the repository.                 *)
(*   "part_000"  : src/unnamed/part_000 (poll, click, readiness race,      *)
(*                 final check, retry with backoff)                        *)
(*   "keepalive" : src/.github/scripts/keepalive.js (one scan, one click)  *)
(* The headless browser and the target application are the environment:    *)
(* the DOM of every document changes on its own between two awaits.        *)
(***************************************************************************)
EXTENDS Integers, Sequences, FiniteSets, TLC

VARIABLES
  script,        \* which of the two scripts runs
  urlSet,        \* STREAMLIT_URL is set
  sinkSet,       \* GITHUB_STEP_SUMMARY is set
  pc,            \* position of the one async task
  browser,       \* "none" | "open" | "closed" | "closeFailed"
  closeCalls,    \* number of browser.close() calls
  response,      \* result of page.goto: "pending" | "null" | "received"
  status,        \* response.status(), 0 before a response
  dom,           \* per document: "none" | "button" | "destroyed" | "detached"
  attempt,       \* loop variable of the attempt loop
  polls,         \* polls made by the current findAndClickWakeButton call
  queried,       \* some ctx.$(...) of the search has been issued
  sawMatch,      \* some ctx.$(...) of the current attempt returned an element
  contexts,      \* the contexts array of the current poll
  scanIdx,       \* index of the for-of loop over contexts
  scanLog,       \* what the current poll saw in contexts[1..scanIdx-1]
  box,           \* local: button.boundingBox() is non-null
  inViewport,    \* local: button.isIntersectingViewport()
  clicked,       \* local of findAndClickWakeButton: NoCtx or {label, ctx}
  lastClicked,   \* lastClickedLabel / lastClickedContext
  clicks,        \* number of button.click() calls issued
  blindClicks,   \* those issued on a control with no box and outside the viewport
  steady,        \* the documents that held the control when the current
                 \* poll began and were left untouched since
  waitA,         \* waitForFunction(...) promise of the current race
  waitB,         \* waitForNavigation(...) promise of the current race
  raceResult,    \* how Promise.race settled, kept until the final check
  finalSeen,     \* what the last final check got: "present", "absent" or the error
  finalChecks,   \* number of final checks made
  backoffs,      \* every backoff sleep, in ms, in order
  failReason,    \* first argument of fail()
  failedAt,      \* the step that called fail() or threw
  err,           \* second argument of fail(): the error's kind, or "none"
  report,        \* what was appended to the summary file
  appendFailed,  \* fs.appendFile rejected (caught and logged)
  exitCode,      \* -1 while running
  successLabel   \* what the success log line names

vars == <<script, urlSet, sinkSet, pc, browser, closeCalls, response, status,
          dom, attempt, polls, queried, sawMatch, contexts, scanIdx, scanLog, box,
          inViewport, steady, clicked, lastClicked, clicks, blindClicks, waitA, waitB,
          raceResult, finalSeen, finalChecks, backoffs, failReason, failedAt, err, report,
          appendFailed, exitCode, successLabel>>

----------------------------------------------------------------------------
(* Program constants *)
WAKE_MAX_ATTEMPTS == 3
WAKE_RETRY_BACKOFF_BASE_MS == 2000

(* Bounds of the model *)
MaxFrames == 1   \* child frames the page may hold
MaxPolls == 2    \* polls that fit before the poll deadline

Scripts == {"part_000", "keepalive"}
MainDoc == 0
ChildDocs == 1..MaxFrames
Docs == {MainDoc} \cup ChildDocs
Statuses == {200, 400, 500}

ReasonConfig == "STREAMLIT_URL env var is required"
ReasonKeepAwake == "Failed to keep Streamlit app awake"
ReasonNotReady == "Wake-up button clicked but app did not become ready in time"
ReasonStillPresent == "Wake-up button still present after all wake attempts; app may still be sleeping"

NoCtx == [label |-> "none", doc |-> -1]
RaceIdle == [by |-> "none", how |-> "idle", state |-> "idle"]
RacePending == [by |-> "none", how |-> "pending", state |-> "pending"]
NoSuccess == [note |-> "none", label |-> NoCtx]

cfgVars == <<script, urlSet, sinkSet>>
navVars == <<response, status>>
scanVars == <<polls, queried, sawMatch, contexts, scanIdx, scanLog, box, inViewport, clicked>>
clickVars == <<clicks, blindClicks>>
raceVars == <<waitA, waitB, raceResult>>
logVars == <<finalSeen, finalChecks, backoffs>>
failVars == <<failReason, failedAt, err>>
endVars == <<report, appendFailed, exitCode, successLabel>>

----------------------------------------------------------------------------
(* State after the module-level constants are read, before the async run *)
Init ==
  /\ script \in Scripts
  /\ urlSet \in BOOLEAN
  /\ sinkSet \in BOOLEAN
  /\ pc = "start"
  /\ browser = "none"
  /\ closeCalls = 0
  /\ response = "pending"
  /\ status = 0
  /\ dom = [d \in Docs |-> IF d = MainDoc THEN "none" ELSE "detached"]
  /\ attempt = 0
  /\ polls = 0
  /\ queried = FALSE
  /\ sawMatch = FALSE
  /\ contexts = <<>>
  /\ scanIdx = 0
  /\ scanLog = <<>>
  /\ box = FALSE
  /\ inViewport = FALSE
  /\ clicked = NoCtx
  /\ lastClicked = NoCtx
  /\ clicks = 0
  /\ blindClicks = 0
  /\ steady = {}
  /\ waitA = "idle"
  /\ waitB = "idle"
  /\ raceResult = RaceIdle
  /\ finalSeen = "none"
  /\ finalChecks = 0
  /\ backoffs = <<>>
  /\ failReason = "none"
  /\ failedAt = "none"
  /\ err = "none"
  /\ report = <<>>
  /\ appendFailed = FALSE
  /\ exitCode = -1
  /\ successLabel = NoSuccess

----------------------------------------------------------------------------
(* fail(reason, err): console.error, then the summary, then process.exit(1). *)
(* Entering fail is the last thing the failing step does.                   *)
Fail(reason, e) ==
  /\ pc' = "fail"
  /\ failReason' = reason
  /\ failedAt' = pc
  /\ err' = e

(* The summary without the line of the error message *)
buildFailureSummaryNoError(reason, e) ==
  <<[fact |-> "heading", value |-> "### Streamlit keepalive failed"],
    [fact |-> "URL", value |-> IF urlSet THEN "STREAMLIT_URL" ELSE "not set"],
    [fact |-> "Reason", value |-> reason]>>

(* buildFailureSummary(lines) of the lines fail() passes *)
buildFailureSummary(reason, e) ==
  <<[fact |-> "heading", value |-> "### Streamlit keepalive failed"],
    [fact |-> "URL", value |-> IF urlSet THEN "STREAMLIT_URL" ELSE "not set"],
    [fact |-> "Reason", value |-> reason]>>
  \o (IF e # "none" THEN <<[fact |-> "Error", value |-> e]>> ELSE <<>>)

(* appendFailureSummary: skipped without SUMMARY_PATH; a write error is *)
(* caught and only logged.                                               *)
AppendFailureSummary ==
  /\ pc = "fail"
  /\ \E writeOk \in (IF sinkSet THEN BOOLEAN ELSE {TRUE}) :
       /\ report' = IF sinkSet /\ writeOk
                    THEN Append(report, buildFailureSummary(failReason, err))
                    ELSE report
       /\ appendFailed' = ~writeOk
  /\ pc' = "exit"
  /\ UNCHANGED <<cfgVars, browser, closeCalls, navVars, dom, attempt, scanVars,
                 lastClicked, clickVars, raceVars, logVars, failVars, exitCode,
                 successLabel>>
  /\ UNCHANGED steady

(* process.exit(1): the process ends here; nothing pending runs any more, *)
(* the finally block of the run included.                                 *)
ProcessExit ==
  /\ pc = "exit"
  /\ pc' = "exited"
  /\ exitCode' = 1
  /\ UNCHANGED <<cfgVars, browser, closeCalls, navVars, dom, attempt, scanVars,
                 lastClicked, clickVars, raceVars, logVars, failVars, report, appendFailed,
                 successLabel>>
  /\ UNCHANGED steady

(* The check of the URL left out *)
UrlMissingIgnored == FALSE

(* !STREAMLIT_URL *)
UrlMissing == ~urlSet

(* if (!STREAMLIT_URL) await fail(...) *)
CheckUrl ==
  /\ pc = "start"
  /\ IF UrlMissing
     THEN Fail(ReasonConfig, "none")
     ELSE pc' = "launch" /\ UNCHANGED failVars
  /\ UNCHANGED <<cfgVars, browser, closeCalls, navVars, dom, attempt, scanVars,
                 lastClicked, clickVars, raceVars, logVars, endVars>>
  /\ UNCHANGED steady

(* puppeteer.launch, browser.newPage (and, in part_000, setUserAgent and *)
(* setViewport). A throw of launch leaves browser undefined.             *)
Launch ==
  /\ pc = "launch"
  /\ \E outcome \in {"ok", "launchThrows", "newPageThrows"} :
       CASE outcome = "ok" ->
              /\ browser' = "open"
              /\ pc' = "goto"
              /\ UNCHANGED failVars
         [] outcome = "launchThrows" ->
              /\ browser' = browser
              /\ Fail(ReasonKeepAwake, "LaunchError")
         [] outcome = "newPageThrows" ->
              /\ browser' = "open"
              /\ Fail(ReasonKeepAwake, "PageError")
  /\ UNCHANGED <<cfgVars, closeCalls, navVars, dom, attempt, scanVars,
                 lastClicked, clickVars, raceVars, logVars, endVars>>
  /\ UNCHANGED steady

(* status > 400: the boundary status passes *)
BadStatusOffByOne(s) == s > 400

(* status >= 400 *)
BadStatus(s) == s >= 400

(* page.goto, the response checks and the grace sleep. What the page holds *)
(* once it has loaded is the application's choice.                         *)
Goto ==
  /\ pc = "goto"
  /\ \E r \in {"null", "throws", "response"} :
       CASE r = "throws" ->
              /\ Fail(ReasonKeepAwake, "NavigationTimeout")
              /\ UNCHANGED <<response, status, dom, attempt>>
         [] r = "null" ->
              /\ response' = "null"
              /\ Fail(ReasonKeepAwake, "No response received from the Streamlit app")
              /\ UNCHANGED <<status, dom, attempt>>
         [] OTHER ->
              \E st \in Statuses :
                /\ response' = "received"
                /\ status' = st
                /\ IF BadStatus(st)
                   THEN /\ Fail(ReasonKeepAwake, "Unexpected response status")
                        /\ UNCHANGED <<dom, attempt>>
                   ELSE /\ dom' \in [Docs -> {"none", "button", "detached"}]
                        /\ dom'[MainDoc] # "detached"
                        /\ IF script = "part_000"
                           THEN pc' = "attempt" /\ attempt' = 1
                           ELSE pc' = "kpage" /\ attempt' = attempt
                        /\ UNCHANGED failVars
  /\ UNCHANGED <<cfgVars, browser, closeCalls, scanVars, lastClicked, clickVars,
                 raceVars, logVars, endVars>>
  /\ UNCHANGED steady

(* browser.close() awaited with no try around it *)
CloseErrorEscapes == FALSE

(* try { await browser.close() } catch (closeError) { console.error(...) } *)
CloseErrorCaught == TRUE

(* finally { if (browser) { try { await browser.close() } catch {...} } }, *)
(* reached by return and by falling out of the try block. An error that   *)
(* left the run would end the process as an unhandled rejection, code 1.  *)
Finally ==
  /\ pc = "finally"
  /\ IF browser = "open"
     THEN /\ closeCalls' = closeCalls + 1
          /\ \E closeOk \in BOOLEAN :
               /\ browser' = IF closeOk THEN "closed" ELSE "closeFailed"
               /\ IF closeOk \/ CloseErrorCaught
                  THEN pc' = "done" /\ exitCode' = 0
                  ELSE pc' = "exited" /\ exitCode' = 1
     ELSE /\ UNCHANGED <<browser, closeCalls>>
          /\ pc' = "done"
          /\ exitCode' = 0
  /\ UNCHANGED <<cfgVars, navVars, dom, attempt, scanVars, lastClicked, clickVars,
                 raceVars, logVars, failVars, report, appendFailed, successLabel>>
  /\ UNCHANGED steady

----------------------------------------------------------------------------
(* The contexts array of part_000: the page, then page.frames(), which is  *)
(* the main frame (the page's own document) and the attached child frames. *)
RECURSIVE ChildFrames(_, _)
ChildFrames(d, k) ==
  IF k > MaxFrames THEN <<>>
  ELSE (IF d[k] # "detached" THEN <<[label |-> "frame", doc |-> k]>> ELSE <<>>)
       \o ChildFrames(d, k + 1)

PageCtx == [label |-> "main page", doc |-> MainDoc]
Frames(d) == <<[label |-> "frame", doc |-> MainDoc]>> \o ChildFrames(d, 1)
Contexts(d) == <<PageCtx>> \o Frames(d)

(* The error a driver call rejects with: on a document torn down by a    *)
(* navigation, one of the two messages of a lost execution context; on a *)
(* frame that left the page, one of these or the detached-frame message. *)
DriverErrors(st) ==
  IF st = "destroyed"
  THEN {"Execution context was destroyed", "Cannot find context"}
  ELSE {"Execution context was destroyed", "Cannot find context",
        "Attempted to use detached Frame"}

Unusable(st) == st \in {"destroyed", "detached"}

(* for (let attempt = 1; attempt <= WAKE_MAX_ATTEMPTS; ...): the loop header *)
(* and the call of findAndClickWakeButton (pollDeadline, clicked = null)    *)
AttemptStart ==
  /\ pc = "attempt"
  /\ IF attempt <= WAKE_MAX_ATTEMPTS
     THEN /\ pc' = "poll"
          /\ polls' = 0
          /\ clicked' = NoCtx
          /\ sawMatch' = FALSE
          /\ UNCHANGED successLabel
     ELSE /\ pc' = "finally"
          /\ successLabel' = [note |-> "succeeded", label |-> lastClicked]
          /\ UNCHANGED <<polls, clicked, sawMatch>>
  /\ UNCHANGED <<cfgVars, browser, closeCalls, navVars, dom, attempt, queried,
                 contexts, scanIdx, scanLog, box, inViewport, lastClicked, clickVars,
                 raceVars, logVars, failVars, report, appendFailed, exitCode>>
  /\ UNCHANGED steady

(* The deadline moved along with every poll: none is ever counted *)
PollsSpentNever(n) == 0

(* The polls that have used up the 60 s up to pollDeadline (line 94), *)
(* one more with each pass of the while loop                          *)
PollsSpent(n) == n + 1

(* Date.now() < pollDeadline: the first poll always fits, no more than *)
(* MaxPolls do.                                                        *)
TimeLeft == {b \in BOOLEAN : (polls = 0 => b) /\ (polls >= MaxPolls => ~b)}

(* The not-found return taken for a failure *)
ReturnNotFoundAsFailure ==
  /\ Fail(ReasonStillPresent, "none")
  /\ UNCHANGED successLabel

(* The already-awake message naming the context of an earlier click *)
AlreadyAwakeNamingLast == [note |-> "already awake", label |-> lastClicked]

(* if (!clicked) { log "assuming app is already awake"; log "succeeded *)
(* (already awake)"; return }                                          *)
AlreadyAwake == [note |-> "already awake", label |-> NoCtx]
ReturnAlreadyAwake ==
  /\ successLabel' = AlreadyAwake
  /\ pc' = "finally"
  /\ UNCHANGED failVars

(* The first clicked context kept, later ones dropped *)
RememberFirst(c, previous) == IF previous = NoCtx THEN c ELSE previous

(* lastClickedLabel = clicked.label; lastClickedContext = clicked.ctx *)
Remember(c, previous) == c

(* while (!clicked && Date.now() < pollDeadline): either the next poll *)
(* starts (contexts recomputed), or findAndClickWakeButton returns (its *)
(* locals are gone) and the attempt loop goes on to the race or to the *)
(* early return.                                                       *)
Poll ==
  /\ pc = "poll"
  /\ \E timeLeft \in TimeLeft :
       IF clicked = NoCtx /\ timeLeft
       THEN /\ contexts' = Contexts(dom)
            /\ scanIdx' = 1
            /\ scanLog' = <<>>
            /\ polls' = PollsSpent(polls)
            /\ steady' = {d \in Docs : dom[d] = "button"}
            /\ pc' = "query"
            /\ UNCHANGED <<box, inViewport, lastClicked, raceVars, successLabel,
                           failVars>>
       ELSE /\ IF clicked = NoCtx
               THEN /\ ReturnAlreadyAwake
                    /\ UNCHANGED <<lastClicked, raceVars>>
               ELSE /\ lastClicked' = Remember(clicked, lastClicked)
                    /\ waitA' = "pending"
                    /\ waitB' = "pending"
                    /\ raceResult' = RacePending
                    /\ pc' = "race"
                    /\ UNCHANGED <<successLabel, failVars>>
            /\ contexts' = <<>>
            /\ scanIdx' = 0
            /\ scanLog' = <<>>
            /\ box' = FALSE
            /\ inViewport' = FALSE
            /\ polls' = 0
            /\ steady' = {}
  /\ UNCHANGED <<cfgVars, browser, closeCalls, navVars, dom, attempt, queried,
                 sawMatch, clicked, clickVars, logVars, report, appendFailed, exitCode>>

Seen(found, b, v) == [found |-> found, box |-> b, inViewport |-> v]

(* for (const { ctx, label } of contexts): const button = await ctx.$(...), *)
(* and after the last context: if (!clicked) await sleep(interval)          *)
Query ==
  /\ pc = "query"
  /\ IF scanIdx > Len(contexts)
     THEN /\ pc' = "poll"
          /\ UNCHANGED <<scanIdx, scanLog, queried, sawMatch, failVars>>
     ELSE LET ctx == contexts[scanIdx]
              st == dom[ctx.doc]
          IN /\ queried' = TRUE
             /\ sawMatch' = (sawMatch \/ st = "button")
             /\ CASE st = "none" ->
                    /\ scanLog' = Append(scanLog, Seen(FALSE, FALSE, FALSE))
                    /\ scanIdx' = scanIdx + 1
                    /\ pc' = "query"
                    /\ UNCHANGED failVars
               [] st = "button" ->
                    /\ pc' = "scroll"
                    /\ UNCHANGED <<scanIdx, scanLog, failVars>>
               [] OTHER ->
                    /\ \E e \in DriverErrors(st) : Fail(ReasonKeepAwake, e)
                    /\ UNCHANGED <<scanIdx, scanLog>>
  /\ UNCHANGED <<cfgVars, browser, closeCalls, navVars, dom, attempt, polls,
                 contexts, box, inViewport, clicked, lastClicked,
                 clickVars, raceVars, logVars, endVars>>
  /\ UNCHANGED steady

(* await button.evaluate(node => node.scrollIntoView(...)): a node that was *)
(* removed is still a node; a destroyed or detached document rejects.       *)
Scroll ==
  /\ pc = "scroll"
  /\ LET st == dom[contexts[scanIdx].doc]
     IN IF Unusable(st)
        THEN \E e \in DriverErrors(st) : Fail(ReasonKeepAwake, e)
        ELSE pc' = "measure" /\ UNCHANGED failVars
  /\ UNCHANGED <<cfgVars, browser, closeCalls, navVars, dom, attempt, scanVars,
                 lastClicked, clickVars, raceVars, logVars, endVars>>
  /\ UNCHANGED steady

(* if (!box || !inViewport) continue *)
ActionableBoth(b, v) == ~(~b \/ ~v)

(* if (!box && !inViewport) continue *)
Actionable(b, v) == ~(~b /\ ~v)

(* box = await button.boundingBox(); inViewport = await                   *)
(* button.isIntersectingViewport(); the actionability test. A removed node *)
(* has no box and intersects nothing.                                      *)
Measure ==
  /\ pc = "measure"
  /\ LET ctx == contexts[scanIdx]
         st == dom[ctx.doc]
     IN IF Unusable(st)
        THEN /\ \E e \in DriverErrors(st) : Fail(ReasonKeepAwake, e)
             /\ UNCHANGED <<box, inViewport, scanIdx, scanLog>>
        ELSE \E b \in (IF st = "button" THEN BOOLEAN ELSE {FALSE}),
                v \in (IF st = "button" THEN BOOLEAN ELSE {FALSE}) :
               /\ box' = b
               /\ inViewport' = v
               /\ IF Actionable(b, v)
                  THEN /\ pc' = "click"
                       /\ UNCHANGED <<scanIdx, scanLog>>
                  ELSE /\ scanLog' = Append(scanLog, Seen(TRUE, b, v))
                       /\ scanIdx' = scanIdx + 1
                       /\ pc' = "query"
               /\ UNCHANGED failVars
  /\ UNCHANGED <<cfgVars, browser, closeCalls, navVars, dom, attempt, polls, sawMatch,
                 queried, contexts, clicked, lastClicked, clickVars, raceVars,
                 logVars, endVars>>
  /\ UNCHANGED steady

(* A click is blind when the control has neither a box nor a part in the *)
(* viewport                                                              *)
Blind(b, v) == IF ~b /\ ~v THEN 1 ELSE 0

(* await sleep(250); await button.click({ delay: 150 }); clicked = {label, *)
(* ctx}; break. A click on a removed node, or in a destroyed or detached   *)
(* document, rejects.                                                      *)
Click ==
  /\ pc = "click"
  /\ LET ctx == contexts[scanIdx]
         st == dom[ctx.doc]
     IN /\ clicks' = clicks + 1
        /\ blindClicks' = blindClicks + Blind(box, inViewport)
        /\ IF st = "button"
           THEN /\ clicked' = ctx
                /\ pc' = "poll"
                /\ UNCHANGED failVars
           ELSE /\ \E e \in (IF st = "none" THEN {"Node is detached from document"}
                                            ELSE DriverErrors(st)) :
                      Fail(ReasonKeepAwake, e)
                /\ UNCHANGED clicked
  /\ UNCHANGED <<cfgVars, browser, closeCalls, navVars, dom, attempt, polls, sawMatch,
                 queried, contexts, scanIdx, scanLog, box, inViewport,
                 lastClicked, raceVars, logVars, endVars>>
  /\ UNCHANGED steady

----------------------------------------------------------------------------
(* The readiness race *)
Running == pc \notin {"fail", "exit", "exited", "finally", "done"}

(* .catch(() => null): a rejection becomes a fulfilment with null *)
CatchNull(state) == IF state = "rejected" THEN "fulfilled" ELSE state

(* How a wait that ended in `how` leaves its promise *)
Settled(how) == IF how = "resolved" THEN "fulfilled" ELSE "rejected"

(* A race that takes the value of whichever promise settled last *)
RaceAfterLast(by, how) ==
  [by |-> by, how |-> how, state |-> CatchNull(Settled(how))]

(* Promise.race settles as the first of its (caught) promises settles *)
RaceAfter(by, how) ==
  IF raceResult = RacePending
  THEN [by |-> by, how |-> how, state |-> CatchNull(Settled(how))]
  ELSE raceResult

(* lastClickedContext.waitForFunction(selector => !document.querySelector( *)
(* selector), { timeout }): resolves once the document holds no match,     *)
(* rejects when its document goes away or when the timeout elapses.        *)
SettleA ==
  /\ Running
  /\ waitA = "pending"
  /\ LET st == dom[lastClicked.doc]
     IN \E how \in (CASE st = "none" -> {"resolved"}
                      [] st = "button" -> {"timeout"}
                      [] OTHER -> {"destroyed"}) :
          /\ waitA' = how
          /\ raceResult' = RaceAfter("A", how)
  /\ UNCHANGED <<cfgVars, pc, browser, closeCalls, navVars, dom, attempt,
                 scanVars, lastClicked, clickVars, waitB, logVars, failVars, endVars>>
  /\ UNCHANGED steady

(* page.waitForNavigation({ waitUntil: 'networkidle2', timeout }): resolves *)
(* when the page navigates and goes idle, rejects when the timeout elapses. *)
SettleB ==
  /\ Running
  /\ waitB = "pending"
  /\ \E how \in {"resolved", "timeout"} :
       /\ waitB' = how
       /\ raceResult' = RaceAfter("B", how)
  /\ UNCHANGED <<cfgVars, pc, browser, closeCalls, navVars, dom, attempt,
                 scanVars, lastClicked, clickVars, waitA, logVars, failVars, endVars>>
  /\ UNCHANGED steady

(* try { await Promise.race([...]); await sleep(2_000) } catch (readyError) *)
(* { await fail('... did not become ready in time', readyError) }. The wait *)
(* that lost the race is abandoned: nothing awaits it any more, and it may  *)
(* still settle during the sleep that follows.                              *)
RaceContinue ==
  /\ pc = "race"
  /\ raceResult # RacePending
  /\ IF raceResult.state = "rejected"
     THEN Fail(ReasonNotReady, "TimeoutError")
     ELSE pc' = "final" /\ UNCHANGED failVars
  /\ UNCHANGED <<cfgVars, browser, closeCalls, navVars, dom, attempt, scanVars,
                 lastClicked, clickVars, waitA, waitB, raceResult, logVars, endVars>>
  /\ UNCHANGED steady

(* The .catch of the final check rethrowing everything *)
MeansGoneNever(e) == FALSE

(* The .catch of the final check: these two messages mean "gone" *)
MeansGone(e) ==
  e \in {"Execution context was destroyed", "Cannot find context"}

(* WAKE_RETRY_BACKOFF_BASE_MS * 2 ** attempt *)
BackoffFromDouble(a) == WAKE_RETRY_BACKOFF_BASE_MS * 2 ^ a

(* WAKE_RETRY_BACKOFF_BASE_MS with no doubling *)
BackoffConstant(a) == WAKE_RETRY_BACKOFF_BASE_MS

(* WAKE_RETRY_BACKOFF_BASE_MS * 2 ** (attempt - 1) *)
Backoff(a) == WAKE_RETRY_BACKOFF_BASE_MS * 2 ^ (a - 1)

(* attempt <= WAKE_MAX_ATTEMPTS *)
AttemptsRemainInclusive(a) == a <= WAKE_MAX_ATTEMPTS

(* if (attempt < WAKE_MAX_ATTEMPTS) *)
AttemptsRemain(a) == a < WAKE_MAX_ATTEMPTS

(* buttonStillThere = await lastClickedContext.$(...).catch(...), then  *)
(* break, or the backoff sleep and the next attempt, or fail.           *)
FinalCheck ==
  /\ pc = "final"
  /\ LET st == dom[lastClicked.doc]
     IN \E e \in (IF Unusable(st) THEN DriverErrors(st) ELSE {"none"}) :
          IF e # "none" /\ ~MeansGone(e)
          THEN /\ Fail(ReasonKeepAwake, e)
               /\ finalSeen' = e
               /\ UNCHANGED <<attempt, backoffs, successLabel>>
          ELSE LET buttonStillThere == (e = "none" /\ st = "button")
               IN /\ finalSeen' = (IF e # "none" THEN e
                                   ELSE IF st = "button" THEN "present"
                                   ELSE "absent")
                  /\ IF ~buttonStillThere
                     THEN /\ pc' = "finally"
                          /\ successLabel' = [note |-> "succeeded", label |-> lastClicked]
                          /\ UNCHANGED <<attempt, backoffs, failVars>>
                     ELSE IF AttemptsRemain(attempt)
                     THEN /\ backoffs' = Append(backoffs, Backoff(attempt))
                          /\ attempt' = attempt + 1
                          /\ pc' = "attempt"
                          /\ UNCHANGED <<successLabel, failVars>>
                     ELSE /\ Fail(ReasonStillPresent, "none")
                          /\ UNCHANGED <<attempt, backoffs, successLabel>>
  /\ raceResult' = RaceIdle
  /\ waitA' = "idle"
  /\ waitB' = "idle"
  /\ finalChecks' = finalChecks + 1
  /\ UNCHANGED <<cfgVars, browser, closeCalls, navVars, dom, scanVars,
                 lastClicked, clickVars, report, appendFailed, exitCode>>
  /\ UNCHANGED steady

----------------------------------------------------------------------------
(* keepalive.js: checkForWakeButton(page), then each of page.frames() *)
KCheck(ctx, onNull, onButton) ==
  LET st == dom[ctx.doc]
  IN /\ queried' = TRUE
     /\ CASE st = "button" ->
            /\ pc' = "kclick"
            /\ UNCHANGED <<failVars, successLabel>>
            /\ onButton
       [] st = "none" ->
            /\ UNCHANGED failVars
            /\ onNull
       [] OTHER ->
            /\ \E e \in DriverErrors(st) : Fail(ReasonKeepAwake, e)
            /\ UNCHANGED <<contexts, scanIdx, successLabel>>

(* let clicked = await checkForWakeButton(page): the query; on no match *)
(* page.frames() is read for the loop                                   *)
KCheckPage ==
  /\ pc = "kpage"
  /\ KCheck(PageCtx,
            /\ contexts' = Frames(dom)
            /\ scanIdx' = 1
            /\ pc' = "kframes"
            /\ UNCHANGED successLabel,
            /\ contexts' = <<PageCtx>>
            /\ scanIdx' = 1)
  /\ UNCHANGED <<cfgVars, browser, closeCalls, navVars, dom, attempt, polls, sawMatch,
                 scanLog, box, inViewport, clicked, lastClicked,
                 clickVars, raceVars, logVars, report, appendFailed, exitCode>>
  /\ UNCHANGED steady

KSuccess(ctx) == [note |-> "succeeded", label |-> ctx]

(* for (const frame of page.frames()) { clicked = await                    *)
(* checkForWakeButton(frame); ... }: the query of one frame, and after the *)
(* last frame the success log                                              *)
KCheckFrame ==
  /\ pc = "kframes"
  /\ IF scanIdx > Len(contexts)
     THEN /\ pc' = "finally"
          /\ successLabel' = KSuccess(NoCtx)
          /\ UNCHANGED <<contexts, scanIdx, queried, failVars>>
     ELSE KCheck(contexts[scanIdx],
                 /\ scanIdx' = scanIdx + 1
                 /\ pc' = "kframes"
                 /\ UNCHANGED <<contexts, successLabel>>,
                 UNCHANGED <<contexts, scanIdx>>)
  /\ UNCHANGED <<cfgVars, browser, closeCalls, navVars, dom, attempt, polls, sawMatch,
                 scanLog, box, inViewport, clicked, lastClicked,
                 clickVars, raceVars, logVars, report, appendFailed, exitCode>>
  /\ UNCHANGED steady

(* await button.click(); return true; then the break and the success log. *)
(* Nothing is measured before this click.                                 *)
KClick ==
  /\ pc = "kclick"
  /\ LET ctx == contexts[scanIdx]
         st == dom[ctx.doc]
     IN /\ clicks' = clicks + 1
        /\ \E b \in (IF st = "button" THEN BOOLEAN ELSE {FALSE}),
              v \in (IF st = "button" THEN BOOLEAN ELSE {FALSE}) :
             blindClicks' = blindClicks + Blind(b, v)
        /\ IF st = "button"
           THEN /\ clicked' = ctx
                /\ successLabel' = KSuccess(ctx)
                /\ pc' = "finally"
                /\ UNCHANGED failVars
           ELSE /\ \E e \in (IF st = "none" THEN {"Node is detached from document"}
                                            ELSE DriverErrors(st)) :
                      Fail(ReasonKeepAwake, e)
                /\ UNCHANGED <<clicked, successLabel>>
  /\ UNCHANGED <<cfgVars, browser, closeCalls, navVars, dom, attempt, polls, sawMatch,
                 queried, contexts, scanIdx, scanLog, box, inViewport,
                 lastClicked, raceVars, logVars, report, appendFailed, exitCode>>
  /\ UNCHANGED steady

----------------------------------------------------------------------------
(* The target application and the browser: between two steps of the run a *)
(* document gains or loses the wake control, the page's document is torn   *)
(* down by a navigation ("destroyed"), a child frame joins the page or     *)
(* leaves it ("detached": gone from page.frames(), its calls reject).      *)
EnvChange ==
  /\ Running
  /\ browser = "open"
  /\ response = "received"
  /\ \E d \in Docs, st \in {"none", "button", "destroyed", "detached"} :
       /\ st # dom[d]
       /\ d = MainDoc => st # "detached"
       /\ d # MainDoc => st # "destroyed"
       /\ dom' = [dom EXCEPT ![d] = st]
       /\ steady' = steady \ {d}
  /\ UNCHANGED <<cfgVars, pc, browser, closeCalls, navVars, attempt, scanVars,
                 lastClicked, clickVars, raceVars, logVars, failVars, endVars>>

Next ==
  \/ CheckUrl
  \/ Launch
  \/ Goto
  \/ AttemptStart
  \/ Poll
  \/ Query
  \/ Scroll
  \/ Measure
  \/ Click
  \/ SettleA
  \/ SettleB
  \/ RaceContinue
  \/ FinalCheck
  \/ KCheckPage
  \/ KCheckFrame
  \/ KClick
  \/ Finally
  \/ AppendFailureSummary
  \/ ProcessExit
  \/ EnvChange

Spec == Init /\ [][Next]_vars

(* The steps of the run and of its two timed waits: each is taken once it *)
(* can be (the event loop runs every continuation, every timer fires).    *)
(* The application is free to change the page or not.                     *)
Step ==
  \/ CheckUrl
  \/ Launch
  \/ Goto
  \/ AttemptStart
  \/ Poll
  \/ Query
  \/ Scroll
  \/ Measure
  \/ Click
  \/ SettleA
  \/ SettleB
  \/ RaceContinue
  \/ FinalCheck
  \/ KCheckPage
  \/ KCheckFrame
  \/ KClick
  \/ Finally
  \/ AppendFailureSummary
  \/ ProcessExit

FairSpec == Init /\ [][Next]_vars /\ WF_vars(Step)

----------------------------------------------------------------------------
(* Properties *)
Failing == {"fail", "exit", "exited"}
Succeeding == {"finally", "done"}
Launched == browser # "none"
SearchSteps == {"query", "scroll", "measure", "click"}
LostContext == {"Execution context was destroyed", "Cannot find context"}

(* C1: when the race ends because the readiness timeout elapsed (neither *)
(* signal resolved), the run fails with the not-ready reason at once:    *)
(* no final re-query, no backoff, no further attempt follows.            *)
C1_ReadinessTimeoutAborts ==
  (script = "part_000" /\ raceResult.how = "timeout" /\ pc # "race")
    => (pc \in Failing /\ failReason = ReasonNotReady)

(* C2: once the browser has been launched, browser.close() has been     *)
(* called exactly once when the run ends, and on a failure path already *)
(* when the report has been written and the process is about to exit.   *)
C2_BrowserClosedOnceOnEveryExit ==
  (Launched /\ pc \in {"exit", "exited", "done"}) => closeCalls = 1

(* C3: when the control was still present at the final check of every one *)
(* of the WAKE_MAX_ATTEMPTS attempts, the run fails with the still-present *)
(* reason, exactly WAKE_MAX_ATTEMPTS clicks were issued, and the backoff   *)
(* sleeps start at the base and each is double the one before.             *)
C3_ExhaustedAttemptsFail ==
  (script = "part_000" /\ finalChecks = WAKE_MAX_ATTEMPTS /\ finalSeen = "present")
    => /\ pc \in Failing
       /\ failReason = ReasonStillPresent
       /\ pc = "exited" => exitCode = 1
       /\ clicks = WAKE_MAX_ATTEMPTS
       /\ Len(backoffs) = WAKE_MAX_ATTEMPTS - 1
       /\ backoffs[1] = WAKE_RETRY_BACKOFF_BASE_MS
       /\ \A i \in 1..(Len(backoffs) - 1) :
            /\ backoffs[i + 1] = 2 * backoffs[i]
            /\ backoffs[i + 1] > backoffs[i]

C3_Witness ==
  /\ pc = "exited"
  /\ failReason = ReasonStillPresent
  /\ finalChecks = WAKE_MAX_ATTEMPTS
  /\ clicks = WAKE_MAX_ATTEMPTS

C5_NoBlindClick == blindClicks = 0

(* C6: the context clicked in a poll is the first one, in the order page, *)
(* then frames, whose match was actionable: every context scanned before  *)
(* it had no match or an unactionable one and was passed over, and no     *)
(* context after it was looked at.                                        *)
C6_FirstActionableContextIsClicked ==
  (script = "part_000" /\ pc = "poll" /\ clicked # NoCtx)
    => /\ scanIdx \in 1..Len(contexts)
       /\ contexts[1] = PageCtx
       /\ clicked = contexts[scanIdx]
       /\ box \/ inViewport
       /\ Len(scanLog) = scanIdx - 1
       /\ \A j \in 1..Len(scanLog) :
            ~(scanLog[j].found /\ (scanLog[j].box \/ scanLog[j].inViewport))

C6_Witness ==
  /\ script = "part_000"
  /\ pc = "poll"
  /\ clicked # NoCtx
  /\ scanIdx = 3
  /\ scanLog[1].found
  /\ scanLog[2].found

(* C7 as stated: once the control was seen to vanish from the clicked   *)
(* context before the readiness timeout (the waitForFunction won the    *)
(* race), the final check ends the run in success with that context's   *)
(* label.                                                               *)
C7_VanishMeansSuccess ==
  [][(/\ pc = "final"
      /\ raceResult.by = "A"
      /\ raceResult.how = "resolved"
      /\ pc' # "final")
       => (pc' = "finally" /\ successLabel'.label = lastClicked)]_vars

(* C7 amended: when the re-query of the clicked context at the final    *)
(* check finds no control, the run ends in success and the label        *)
(* recorded is the label of the context clicked in that attempt.        *)
C7_GoneAtFinalCheckIsSuccess ==
  (script = "part_000" /\ finalSeen = "absent")
    => /\ pc \in Succeeding
       /\ clicked # NoCtx
       /\ successLabel = [note |-> "succeeded", label |-> clicked]
       /\ failReason = "none"
       /\ pc = "done" => exitCode = 0

C7_Witness ==
  /\ script = "part_000"
  /\ pc = "done"
  /\ finalSeen = "absent"
  /\ attempt = 2
  /\ successLabel.label.label = "frame"

(* C8: when the navigation gave no response or a status >= 400, the run  *)
(* fails: it exits with code 1, no search query and no click was ever    *)
(* issued, and the report written names the target URL and the reason.   *)
NavigationFailed ==
  \/ response = "null"
  \/ response = "received" /\ status >= 400

C8_NavigationFailureFails ==
  NavigationFailed
    => /\ pc \in Failing
       /\ failReason = ReasonKeepAwake
       /\ err \in {"No response received from the Streamlit app",
                   "Unexpected response status"}
       /\ ~queried
       /\ clicks = 0
       /\ exitCode # 0
       /\ pc = "exited" => exitCode = 1
       /\ pc = "fail" => report = <<>>
       /\ Len(report) <= 1
       /\ \A i \in 1..Len(report) :
            /\ report[i][2] = [fact |-> "URL", value |-> "STREAMLIT_URL"]
            /\ report[i][3] = [fact |-> "Reason", value |-> ReasonKeepAwake]
            /\ report[i][4] = [fact |-> "Error", value |-> err]

C8_Witness ==
  /\ pc = "exited"
  /\ status = 500
  /\ Len(report) = 1
  /\ ~queried

C10_SearchSurvivesInvalidation ==
  ~(script = "part_000" /\ pc \in Failing /\ failedAt \in SearchSteps)

(* C11: a backoff sleep is taken only after an attempt k below          *)
(* WAKE_MAX_ATTEMPTS whose final check still saw the control, and it    *)
(* lasts WAKE_RETRY_BACKOFF_BASE_MS * 2^(k-1); none follows a successful *)
(* attempt or the last attempt, so a run that is in attempt k has slept *)
(* exactly k-1 times, 2000 then 4000.                                   *)
C11_BackoffOnlyBetweenAttempts ==
  /\ [](script = "part_000" =>
          /\ Len(backoffs) = (IF attempt = 0 THEN 0 ELSE attempt - 1)
          /\ Len(backoffs) < WAKE_MAX_ATTEMPTS
          /\ \A k \in 1..Len(backoffs) :
               backoffs[k] = WAKE_RETRY_BACKOFF_BASE_MS * 2 ^ (k - 1)
          /\ pc \in Succeeding \cup Failing => Len(backoffs) < finalChecks + 1
          /\ (pc \in Succeeding /\ finalChecks = attempt)
               => Len(backoffs) = finalChecks - 1)
  /\ [][backoffs' # backoffs =>
          /\ pc = "final"
          /\ finalSeen' = "present"
          /\ attempt < WAKE_MAX_ATTEMPTS
          /\ attempt' = attempt + 1
          /\ backoffs' = Append(backoffs,
                                WAKE_RETRY_BACKOFF_BASE_MS * 2 ^ (attempt - 1))]_vars

C11_Witness ==
  /\ script = "part_000"
  /\ pc = "done"
  /\ attempt = WAKE_MAX_ATTEMPTS
  /\ finalSeen = "absent"
  /\ backoffs = <<2000, 4000>>

(* C12: whatever the application does, every run ends, and ends either  *)
(* as a success (exit code 0) or as a failure (exit code 1), never both; *)
(* the polls of a search and the attempts of a run are bounded.         *)
Ended ==
  \/ pc = "done" /\ exitCode = 0 /\ failReason = "none"
  \/ pc = "exited" /\ exitCode = 1 /\ failReason # "none"

C12_EveryRunTerminates ==
  /\ <>[]Ended
  /\ [](attempt <= WAKE_MAX_ATTEMPTS /\ polls <= MaxPolls)

C12_Witness ==
  /\ script = "part_000"
  /\ pc = "exited"
  /\ exitCode = 1
  /\ attempt = WAKE_MAX_ATTEMPTS
  /\ finalChecks = WAKE_MAX_ATTEMPTS

(* The exit code is 0 exactly for a run that succeeded and 1 for every *)
(* failure; a success writes no report.                                *)
ExitCodeTellsOutcome ==
  /\ exitCode \in {-1, 0, 1}
  /\ exitCode = 0 <=> pc = "done"
  /\ exitCode = 1 <=> pc = "exited"
  /\ pc = "done" => failReason = "none" /\ successLabel # NoSuccess
  /\ pc = "exited" => failReason # "none" /\ successLabel = NoSuccess
  /\ pc \in Succeeding => report = <<>>

(* The one report of a failure: URL, reason and, if there is one, the *)
(* message of the error                                               *)
ReportTellsFailure ==
  /\ Len(report) = 1
  /\ Len(report[1]) = (IF err = "none" THEN 3 ELSE 4)
  /\ report[1][2] = [fact |-> "URL",
                     value |-> IF urlSet THEN "STREAMLIT_URL" ELSE "not set"]
  /\ report[1][3] = [fact |-> "Reason", value |-> failReason]
  /\ err # "none" => report[1][4] = [fact |-> "Error", value |-> err]

(* C13 as stated: the exit code is 0 exactly on success, and every     *)
(* failure with a report sink configured has appended its one report   *)
(* by the time the process exits.                                      *)
C13_EveryFailureIsReported ==
  /\ ExitCodeTellsOutcome
  /\ (pc \in {"exit", "exited"} /\ sinkSet) => ReportTellsFailure

(* C13, amended: the exit code is 0 exactly on success and 1 on every  *)
(* failure; a failure with a sink configured appends one report (URL,  *)
(* reason, error message if any) before the process exits unless that  *)
(* append itself fails, which is only logged; nothing is ever reported *)
(* without a sink, on success, or twice.                               *)
C13_FailureIsReportedUnlessAppendFails ==
  /\ ExitCodeTellsOutcome
  /\ (pc \in {"exit", "exited"} /\ sinkSet /\ ~appendFailed) => ReportTellsFailure
  /\ (~sinkSet \/ appendFailed \/ pc \notin {"exit", "exited"}) => report = <<>>

C13_Witness ==
  /\ pc = "exited"
  /\ exitCode = 1
  /\ sinkSet
  /\ ~appendFailed
  /\ err # "none"
  /\ ReportTellsFailure

(* C14: with the target URL missing the run fails at once with the     *)
(* configuration reason: the browser is never launched, nothing is     *)
(* navigated to, queried or clicked, and the exit code is 1.           *)
C14_MissingUrlFailsBeforeLaunch ==
  ~urlSet =>
    /\ pc \in {"start"} \cup Failing
    /\ pc \in Failing => failReason = ReasonConfig /\ failedAt = "start"
    /\ browser = "none"
    /\ closeCalls = 0
    /\ response = "pending"
    /\ ~queried
    /\ clicks = 0
    /\ exitCode \in {-1, 1}
    /\ pc = "exited" <=> exitCode = 1

C14_Witness ==
  /\ ~urlSet
  /\ pc = "exited"
  /\ exitCode = 1
  /\ failReason = ReasonConfig

(* C15: a browser.close() that fails is only logged: the run it ends is *)
(* still the success it was, with exit code 0 and no failure recorded   *)
(* or reported (a failing run never gets to close the browser at all).  *)
C15_CloseFailureIsOnlyLogged ==
  browser = "closeFailed" =>
    /\ pc = "done"
    /\ exitCode = 0
    /\ closeCalls = 1
    /\ failReason = "none"
    /\ err = "none"
    /\ report = <<>>
    /\ successLabel # NoSuccess

C15_Witness ==
  /\ browser = "closeFailed"
  /\ pc = "done"
  /\ exitCode = 0
  /\ successLabel.note = "succeeded"

(* C16: the race is over as soon as the first of the two waits settles, *)
(* by resolving or by timing out, and the run goes on with that; the    *)
(* wait that lost is abandoned: when it settles later, in whatever      *)
(* order, it raises nothing into the run and changes nothing of the     *)
(* attempt's outcome.                                                   *)
LoserSettles ==
  /\ raceResult # RacePending
  /\ \/ waitA = "pending" /\ waitA' \notin {"pending", "idle"}
     \/ waitB = "pending" /\ waitB' \notin {"pending", "idle"}

C16_RaceLoserIsDiscarded ==
  /\ [](script = "part_000" =>
          /\ raceResult.state \in {"idle", "pending", "fulfilled"}
          /\ (raceResult.by = "A" => waitA = raceResult.how)
          /\ (raceResult.by = "B" => waitB = raceResult.how)
          /\ (pc = "race" /\ (waitA # "pending" \/ waitB # "pending"))
               => raceResult.by # "none"
          /\ pc = "final" => raceResult.state = "fulfilled")
  /\ [][LoserSettles =>
          UNCHANGED <<pc, raceResult, attempt, clicked, lastClicked, clicks,
                      finalSeen, finalChecks, backoffs, failReason, failedAt,
                      err, report, exitCode, successLabel>>]_vars

C16_Witness ==
  /\ pc = "final"
  /\ raceResult.by = "B"
  /\ raceResult.how = "timeout"
  /\ waitA = "destroyed"

(* C17: once the attempts have begun the attempt counter is within      *)
(* 1..WAKE_MAX_ATTEMPTS; each attempt issues at most one click, so the  *)
(* clicks of a run never exceed the current attempt number nor          *)
(* WAKE_MAX_ATTEMPTS.                                                   *)
C17_AttemptAndClickBounds ==
  script = "part_000" =>
    /\ attempt \in 0..WAKE_MAX_ATTEMPTS
    /\ attempt = 0 <=> (pc \in {"start", "launch", "goto"}
                         \/ (pc \in Failing /\ failedAt \in {"start", "launch", "goto"}))
    /\ clicks <= attempt
    /\ clicks <= WAKE_MAX_ATTEMPTS
    /\ attempt > 0 => clicks \in {attempt - 1, attempt}
    /\ (pc \in {"poll", "query", "scroll", "measure"} /\ clicked = NoCtx)
         => clicks = attempt - 1

C17_Witness ==
  /\ script = "part_000"
  /\ attempt = WAKE_MAX_ATTEMPTS
  /\ clicks = WAKE_MAX_ATTEMPTS
  /\ pc = "race"

(* C18: when a poll begins with a wake control in one of the contexts   *)
(* of the page and the control stays where it is (its document is left  *)
(* untouched), that poll ends with a click; a control that the poll     *)
(* measured and found unactionable is not the claim's case.             *)
PollOver ==
  \/ pc = "poll" /\ contexts # <<>>
  \/ pc \in Failing /\ failedAt \in SearchSteps

C18_PresentControlIsClickedByThePoll ==
  (script = "part_000" /\ PollOver)
    => \A i \in 1..Len(contexts) :
         (/\ contexts[i].doc \in steady
          /\ dom[contexts[i].doc] = "button"
          /\ i <= Len(scanLog) =>
               Actionable(scanLog[i].box, scanLog[i].inViewport))
           => clicked # NoCtx

C20_LabelOnlyOfTheFinalClick ==
  (script = "part_000" /\ pc \in Succeeding)
    => /\ (successLabel.label # NoCtx)
            <=> (clicked # NoCtx /\ finalChecks = attempt
                 /\ finalSeen \in {"absent"} \cup LostContext)
       /\ successLabel.label # NoCtx
            => /\ successLabel = [note |-> "succeeded", label |-> clicked]
               /\ clicks = attempt
       /\ successLabel.label = NoCtx
            => /\ successLabel = [note |-> "already awake", label |-> NoCtx]
               /\ clicked = NoCtx
               /\ clicks = attempt - 1
               /\ finalChecks = attempt - 1

C20_Witness ==
  /\ script = "part_000"
  /\ pc = "done"
  /\ attempt = 2
  /\ clicks = 1
  /\ lastClicked # NoCtx
  /\ successLabel = [note |-> "already awake", label |-> NoCtx]
====
